---- MODULE Spec2Model ----
\* HashHistogram<T, C> of src/src/lib.rs, with C an unsigned integer counter
\* (the default C = usize), modelled as a state machine over one histogram.
EXTENDS Integers, Sequences, FiniteSets, TLC

\* The keys that are counted (T = &str in the doc-tests).
Keys == {"a", "b", "c"}

\* Largest counter value a bump, bump_by or merge may produce, and largest
\* target_total handed to normalize.
MaxCount == 4

\* Largest counter value of the right-hand operand of +=.
MaxRhs == 2

VARIABLES
    histogram,   \* self.histogram: HashMap<T, C>, a function on the present keys
    order,       \* the order in which self.histogram.iter() yields the present keys
    applied,     \* for each key, the sum of the increments applied since creation
    normalized,  \* TRUE once normalize has rescaled the counters
    last         \* the last call: its name, arguments, receiver before it, outcome

vars == <<histogram, order, applied, normalized, last>>

\* HashHistogram::new() / default(): no entries.
EmptyMap == [k \in {} |-> 0]

\* All the orders in which a HashMap holding the keys S may be iterated.
Perms(S) ==
    {s \in [1..Cardinality(S) -> S] :
        \A i, j \in 1..Cardinality(S) : i # j => s[i] # s[j]}

\* All histograms over Keys with counters in 0..max (what bump_by can build).
Hists(max) == UNION {[S -> 0..max] : S \in SUBSET Keys}

----------------------------------------------------------------------------
\* The methods, as operators on a map h and its iteration order ord.

\* bump_by that stores the increment over a present counter instead of adding.
BumpByOverwrite(h, item, increment) ==
    [k \in DOMAIN h \cup {item} |-> IF k = item THEN increment ELSE h[k]]

\* bump_by: insert the increment for an absent key, add it for a present one.
BumpBy(h, item, increment) ==
    IF item \notin DOMAIN h
    THEN [k \in DOMAIN h \cup {item} |-> IF k = item THEN increment ELSE h[k]]
    ELSE [h EXCEPT ![item] = @ + increment]

\* bump that inserts the default counter for an absent key and adds nothing.
BumpDefault(h, item) ==
    IF item \notin DOMAIN h
    THEN [k \in DOMAIN h \cup {item} |-> IF k = item THEN 0 ELSE h[k]]
    ELSE [h EXCEPT ![item] = @ + 1]

\* bump: bump_by with num::one().
Bump(h, item) == BumpBy(h, item, 1)

\* count: the counter of a present key, num::zero() for an absent one.
Count(h, item) == IF item \in DOMAIN h THEN h[item] ELSE 0

\* len: the number of entries.
len(h) == Cardinality(DOMAIN h)

\* iter: the (key, counter) entries in iteration order.
Iter(h, ord) == [i \in 1..Len(ord) |-> <<ord[i], h[ord[i]]>>]

\* all_labels: the set of keys the iteration yields.
AllLabels(h, ord) == {Iter(h, ord)[i][1] : i \in 1..Len(ord)}

RECURSIVE SumFrom(_, _)
\* Iterator::sum over the counters of the entries it[i..].
SumFrom(it, i) == IF i > Len(it) THEN 0 ELSE it[i][2] + SumFrom(it, i + 1)

\* total_count that leaves out the first entry.
TotalCountSkipFirst(h, ord) == SumFrom(Iter(h, ord), 2)

\* total_count: the sum of the counters yielded by iter().
TotalCount(h, ord) == SumFrom(Iter(h, ord), 1)

\* The comparator with its operands swapped: c1.partial_cmp(c2), ascending.
RankBeforeAscending(x, y) == x[2] < y[2]

\* The comparator of ranking_with_counts, c2.partial_cmp(c1): TRUE when the
\* entry x must come before the entry y (x's counter is larger).
RankBefore(x, y) == x[2] > y[2]

RECURSIVE InsertRanked(_, _, _)
\* One step of the stable sort: e goes before the first entry at or after
\* position i that e must precede, after every entry it compares equal to.
InsertRanked(sorted, e, i) ==
    IF i > Len(sorted) THEN Append(sorted, e)
    ELSE IF RankBefore(e, sorted[i])
         THEN SubSeq(sorted, 1, i - 1) \o <<e>> \o SubSeq(sorted, i, Len(sorted))
         ELSE InsertRanked(sorted, e, i + 1)

RECURSIVE SortBy(_, _)
\* Vec::sort_by (stable) of the first n entries of it.
SortBy(it, n) ==
    IF n = 0 THEN <<>> ELSE InsertRanked(SortBy(it, n - 1), it[n], 1)

\* ranking_with_counts: the entries, sorted by descending counter.
RankingWithCounts(h, ord) == SortBy(Iter(h, ord), Len(ord))

\* ranking: the keys of ranking_with_counts().
Ranking(h, ord) ==
    [i \in 1..Len(RankingWithCounts(h, ord)) |-> RankingWithCounts(h, ord)[i][1]]

RECURSIVE MaxByFirst(_, _, _)
\* A max-scan that keeps the current best on a tie, so the first maximum wins.
MaxByFirst(it, i, best) ==
    IF i > Len(it) THEN best
    ELSE MaxByFirst(it, i + 1, IF best[2] >= it[i][2] THEN best ELSE it[i])

RECURSIVE MaxBy(_, _, _)
\* Iterator::max_by: keeps the current best only when it compares Greater
\* than the next entry, so of several equal maxima the last one wins.
MaxBy(it, i, best) ==
    IF i > Len(it) THEN best
    ELSE MaxBy(it, i + 1, IF best[2] > it[i][2] THEN best ELSE it[i])

\* mode: the key of the maximal entry, "None" for no entries.
Mode(h, ord) ==
    IF Len(ord) = 0 THEN "None" ELSE MaxBy(Iter(h, ord), 2, Iter(h, ord)[1])[1]

RECURSIVE AddAssignFrom(_, _, _)
\* add_assign: bump_by on self for each entry of rhs from position i on.
AddAssignFrom(h, rit, i) ==
    IF i > Len(rit) THEN h
    ELSE AddAssignFrom(BumpBy(h, rit[i][1], rit[i][2]), rit, i + 1)

\* += that leaves out the first entry of rhs.
AddAssignSkipFirst(h, rhs, rord) == AddAssignFrom(h, Iter(rhs, rord), 2)

\* self += &rhs.
AddAssign(h, rhs, rord) == AddAssignFrom(h, Iter(rhs, rord), 1)

\* The rewrite with the division done first: value * (target_total / total).
RescaleDivideFirst(value, target_total, total) == value * (target_total \div total)

\* One rewrite of normalize's loop: *value = *value * target_total / total,
\* with the truncating division of the integer counters.
Rescale(value, target_total, total) == (value * target_total) \div total

RECURSIVE NormalizeFrom(_, _, _, _, _)
\* normalize's loop over values_mut() from position i on.
NormalizeFrom(h, ord, i, target_total, total) ==
    IF i > Len(ord) THEN h
    ELSE NormalizeFrom(
            [h EXCEPT ![ord[i]] = Rescale(@, target_total, total)],
            ord, i + 1, target_total, total)

\* normalize that divides by the total before looking for an entry.
NormalizeEager(h, ord, target_total) ==
    IF TotalCount(h, ord) = 0
    THEN [hist |-> h, fault |-> "divide_by_zero"]
    ELSE [hist |-> NormalizeFrom(h, ord, 1, target_total, TotalCount(h, ord)),
          fault |-> "none"]

\* normalize: the division faults when an entry is rewritten with total zero;
\* the first rewrite faults, so nothing has been written then.
Normalize(h, ord, target_total) ==
    IF Len(ord) > 0 /\ TotalCount(h, ord) = 0
    THEN [hist |-> h, fault |-> "divide_by_zero"]
    ELSE [hist |-> NormalizeFrom(h, ord, 1, target_total, TotalCount(h, ord)),
          fault |-> "none"]

\* choice_from_range for the integer counters: random_range(0..total) draws
\* from the half-open range, and panics when the range is empty.
ChoiceFromRange(total) == 0..(total - 1)

\* The comparison with >= for >.
ExceedsOrEquals(total, choice) == total >= choice

\* The comparison that ends pick_random_key's walk.
Exceeds(total, choice) == total > choice

RECURSIVE PickWalk(_, _, _, _)
\* pick_random_key's loop: the first key at which the running sum exceeds
\* the choice; the panic after the loop when there is none.
PickWalk(it, i, total, choice) ==
    IF i > Len(it) THEN [out |-> "None", fault |-> "should_never_happen"]
    ELSE IF Exceeds(total + it[i][2], choice)
         THEN [out |-> it[i][1], fault |-> "none"]
         ELSE PickWalk(it, i + 1, total + it[i][2], choice)

\* pick_random_key once the choice is drawn.
PickRandomKey(h, ord, choice) == PickWalk(Iter(h, ord), 1, 0, choice)

----------------------------------------------------------------------------
\* The state machine.

\* The record of a call; the fields a call does not use keep these values.
\* It is also the value of last when no result is held by the caller.
NoCall ==
    [op |-> "none", pre |-> EmptyMap, key |-> "None", amt |-> 0,
     rhs |-> EmptyMap, rank |-> <<>>, keys |-> <<>>, out |-> "None",
     fault |-> "none"]

\* The iteration order after a call: unchanged while the key set is, any
\* order of the new key set once an insertion has changed the table.
OrderAfter(h) ==
    /\ order' \in Perms(DOMAIN h)
    /\ (DOMAIN h = DOMAIN histogram) => order' = order

Init ==
    /\ histogram = EmptyMap
    /\ order = <<>>
    /\ applied = [k \in Keys |-> 0]
    /\ normalized = FALSE
    /\ last = NoCall

\* The bookkeeping of the increments: kept until normalize rescales.
Applied(k, amt) ==
    IF normalized THEN applied ELSE [applied EXCEPT ![k] = @ + amt]

\* The caller makes its next call once it has let go of the previous result.
Ready == last = NoCall

DoBump ==
    \E k \in Keys :
        /\ Ready
        /\ Count(histogram, k) + 1 <= MaxCount
        /\ histogram' = Bump(histogram, k)
        /\ OrderAfter(histogram')
        /\ applied' = Applied(k, 1)
        /\ last' = [NoCall EXCEPT !.op = "bump", !.pre = histogram,
                                  !.key = k, !.amt = 1]
        /\ UNCHANGED normalized

DoBumpBy ==
    \E k \in Keys, amt \in 0..MaxCount :
        /\ Ready
        /\ Count(histogram, k) + amt <= MaxCount
        /\ histogram' = BumpBy(histogram, k, amt)
        /\ OrderAfter(histogram')
        /\ applied' = Applied(k, amt)
        /\ last' = [NoCall EXCEPT !.op = "bump_by", !.pre = histogram,
                                  !.key = k, !.amt = amt]
        /\ UNCHANGED normalized

DoAddAssign ==
    \E rhs \in Hists(MaxRhs) :
        \E rord \in Perms(DOMAIN rhs) :
            /\ Ready
            /\ \A k \in DOMAIN rhs : Count(histogram, k) + rhs[k] <= MaxCount
            /\ histogram' = AddAssign(histogram, rhs, rord)
            /\ OrderAfter(histogram')
            /\ applied' = IF normalized THEN applied
                          ELSE [k \in Keys |-> applied[k] + Count(rhs, k)]
            /\ last' = [NoCall EXCEPT !.op = "add_assign", !.pre = histogram,
                                      !.rhs = rhs]
            /\ UNCHANGED normalized

DoNormalize ==
    \E target_total \in 0..MaxCount :
        /\ Ready
        /\ histogram' = Normalize(histogram, order, target_total).hist
        /\ normalized' = (normalized \/ Normalize(histogram, order, target_total).fault = "none")
        /\ applied' = IF normalized' THEN [k \in Keys |-> 0] ELSE applied
        /\ last' = [NoCall EXCEPT !.op = "normalize", !.pre = histogram,
                                  !.amt = target_total,
                                  !.fault = Normalize(histogram, order, target_total).fault]
        /\ UNCHANGED order

DoRanking ==
    /\ Ready
    /\ last' = [NoCall EXCEPT !.op = "ranking", !.pre = histogram,
                              !.rank = RankingWithCounts(histogram, order),
                              !.keys = Ranking(histogram, order)]
    /\ UNCHANGED <<histogram, order, applied, normalized>>

DoMode ==
    /\ Ready
    /\ last' = [NoCall EXCEPT !.op = "mode", !.pre = histogram,
                              !.out = Mode(histogram, order)]
    /\ UNCHANGED <<histogram, order, applied, normalized>>

\* pick_random_key: the assertion, then the draw, then the walk.
DoPickRandomKey ==
    /\ Ready
    /\ \/ /\ len(histogram) = 0
          /\ last' = [NoCall EXCEPT !.op = "pick_random_key", !.pre = histogram,
                                    !.fault = "assert_len"]
       \/ /\ len(histogram) > 0
          /\ ChoiceFromRange(TotalCount(histogram, order)) = {}
          /\ last' = [NoCall EXCEPT !.op = "pick_random_key", !.pre = histogram,
                                    !.fault = "empty_range"]
       \/ /\ len(histogram) > 0
          /\ \E choice \in ChoiceFromRange(TotalCount(histogram, order)) :
                last' = [NoCall EXCEPT
                            !.op = "pick_random_key", !.pre = histogram,
                            !.amt = choice,
                            !.out = PickRandomKey(histogram, order, choice).out,
                            !.fault = PickRandomKey(histogram, order, choice).fault]
    /\ UNCHANGED <<histogram, order, applied, normalized>>

\* The statement that made the call ends: its result (a temporary of the
\* caller, as in assert_eq!(h.mode(), ...)) is dropped.
DropResult ==
    /\ ~Ready
    /\ last' = NoCall
    /\ UNCHANGED <<histogram, order, applied, normalized>>

Next ==
    \/ DoBump
    \/ DoBumpBy
    \/ DoAddAssign
    \/ DoNormalize
    \/ DoRanking
    \/ DoMode
    \/ DoPickRandomKey
    \/ DropResult

Spec == Init /\ [][Next]_vars

----------------------------------------------------------------------------
\* Helpers of the properties.

RECURSIVE SumOver(_, _)
\* The sum of f over the set S, taken without any iteration order.
SumOver(f, S) ==
    IF S = {} THEN 0
    ELSE LET k == CHOOSE x \in S : TRUE IN f[k] + SumOver(f, S \ {k})

\* The sum of all the counters of h.
Total(h) == SumOver(h, DOMAIN h)

\* No entry of h holds the counter zero.
NoZeroEntry(h) == \A k \in DOMAIN h : h[k] # 0

\* The running sum of the counters of the first i keys of ord.
RunningSum(h, ord, i) == SumOver([j \in 1..i |-> h[ord[j]]], 1..i)

\* The position of the key k in ord.
IndexOf(ord, k) == CHOOSE i \in 1..Len(ord) : ord[i] = k

\* The keys of h whose counter is maximal.
Maxima(h) == {k \in DOMAIN h : \A j \in DOMAIN h : h[k] >= h[j]}

TypeOK ==
    /\ DOMAIN histogram \subseteq Keys
    /\ order \in Perms(DOMAIN histogram)
    /\ \A k \in DOMAIN histogram : histogram[k] \in 0..MaxCount

----------------------------------------------------------------------------
\* C1: as long as only bump, bump_by (and the bump_by calls of +=) have been
\* applied to a histogram created empty, count(k) is, for every key k, the sum
\* of the increments applied to k; it is zero for a key never bumped.
C1_CountIsSumOfIncrements ==
    ~normalized => \A k \in Keys : Count(histogram, k) = applied[k]

\* A key bumped more than once by positive amounts, next to an absent key.
C1_Witness ==
    /\ ~normalized
    /\ last.op = "bump_by"
    /\ last.amt > 0
    /\ last.key \in DOMAIN last.pre
    /\ last.pre[last.key] > 0
    /\ \E k \in Keys : k \notin DOMAIN histogram /\ Count(histogram, k) = 0

\* C2: after bumps on overlapping or disjoint keys, total_count() is the sum
\* of all the increments applied, which is the sum of the counters of the
\* present entries; it is zero for the empty histogram.
C2_TotalIsSumOfIncrements ==
    /\ ~normalized => TotalCount(histogram, order) = SumOver(applied, Keys)
    /\ TotalCount(histogram, order) = Total(histogram)
    /\ len(histogram) = 0 => TotalCount(histogram, order) = 0

\* Three keys present with different counters after a bump of a present key.
C2_Witness ==
    /\ ~normalized
    /\ last.op = "bump"
    /\ last.key \in DOMAIN last.pre
    /\ len(histogram) = 3
    /\ TotalCount(histogram, order) >= 4
    /\ \E j, k \in DOMAIN histogram : histogram[j] # histogram[k]

\* C3: ranking_with_counts() holds every present (key, counter) entry exactly
\* once, is sorted by descending counter, and ranking() is its sequence of keys.
C3_RankingSortedDescending ==
    last.op = "ranking" =>
        /\ Len(last.rank) = len(last.pre)
        /\ \A k \in DOMAIN last.pre :
              Cardinality({i \in 1..Len(last.rank) :
                              last.rank[i] = <<k, last.pre[k]>>}) = 1
        /\ \A i \in 1..(Len(last.rank) - 1) : last.rank[i][2] >= last.rank[i + 1][2]
        /\ Len(last.keys) = Len(last.rank)
        /\ \A i \in 1..Len(last.rank) : last.keys[i] = last.rank[i][1]

\* A ranking of three entries, iterated out of order, with a tie and a drop.
C3_Witness ==
    /\ last.op = "ranking"
    /\ Len(last.rank) = 3
    /\ last.rank[1][2] > last.rank[2][2]
    /\ last.rank[2][2] = last.rank[3][2]
    /\ last.keys # order

\* C4 as stated: mode() is None exactly for the empty histogram, and else a
\* key of maximal counter, the first such key in iteration order.
C4_ModeFirstMaximum ==
    last.op = "mode" =>
        /\ (last.out = "None") <=> (len(last.pre) = 0)
        /\ len(last.pre) > 0 =>
              /\ last.out \in Maxima(last.pre)
              /\ \A k \in Maxima(last.pre) : IndexOf(order, last.out) <= IndexOf(order, k)

\* C4 amended: mode() is None exactly for the empty histogram, and else a key
\* of maximal counter, the last such key in iteration order.
C4_ModeLastMaximum ==
    last.op = "mode" =>
        /\ (last.out = "None") <=> (len(last.pre) = 0)
        /\ len(last.pre) > 0 =>
              /\ last.out \in Maxima(last.pre)
              /\ \A k \in Maxima(last.pre) : IndexOf(order, last.out) >= IndexOf(order, k)

\* mode() of a histogram in which two keys tie for the maximum above a third.
C4_Witness ==
    /\ last.op = "mode"
    /\ len(last.pre) = 3
    /\ Cardinality(Maxima(last.pre)) = 2
    /\ last.out \in Maxima(last.pre)

\* C5: after A += &B, the count of every key is its old count in A plus its
\* count in B, and the keys present are those of A and of B.
C5_MergeAddsCounts ==
    last.op = "add_assign" =>
        /\ \A k \in Keys :
              Count(histogram, k) = Count(last.pre, k) + Count(last.rhs, k)
        /\ DOMAIN histogram = DOMAIN last.pre \cup DOMAIN last.rhs

\* A merge with a key in both operands, one only in A and one only in B.
C5_Witness ==
    /\ last.op = "add_assign"
    /\ \E k \in DOMAIN last.pre \cap DOMAIN last.rhs :
          last.pre[k] > 0 /\ last.rhs[k] > 0
    /\ \E k \in DOMAIN last.pre \ DOMAIN last.rhs : last.pre[k] > 0
    /\ \E k \in DOMAIN last.rhs \ DOMAIN last.pre : last.rhs[k] > 0

\* C6: with total_count() = N > 0, in whatever order the entries are iterated
\* each present key k is the result for exactly count(k) of the N draws of
\* [0, N), and the key returned is the first at which the running sum of the
\* counters exceeds the draw.
C6_PickProportional ==
    (last.op = "pick_random_key" /\ Total(last.pre) > 0) =>
        /\ \A ord \in Perms(DOMAIN last.pre) : \A k \in DOMAIN last.pre :
              Cardinality({d \in 0..(Total(last.pre) - 1) :
                              PickRandomKey(last.pre, ord, d) =
                                  [out |-> k, fault |-> "none"]}) = last.pre[k]
        /\ last.fault = "none"
        /\ last.out \in DOMAIN last.pre
        /\ RunningSum(last.pre, order, IndexOf(order, last.out)) > last.amt
        /\ \A i \in 1..(IndexOf(order, last.out) - 1) :
              RunningSum(last.pre, order, i) <= last.amt

\* A draw on a histogram with a zero counter and two different positive ones.
C6_Witness ==
    /\ last.op = "pick_random_key"
    /\ last.fault = "none"
    /\ len(last.pre) = 3
    /\ \E k \in DOMAIN last.pre : last.pre[k] = 0
    /\ \E j, k \in DOMAIN last.pre : 0 < last.pre[j] /\ last.pre[j] < last.pre[k]
    /\ IndexOf(order, last.out) > 1

\* C7: normalize(T) on n keys of nonzero total S keeps the key set, rewrites
\* every counter to floor(old * T / S) with S the total before the call, and
\* leaves a new total with T - n < new total <= T.
C7_NormalizeFloor ==
    (last.op = "normalize" /\ len(last.pre) > 0 /\ Total(last.pre) # 0) =>
        /\ last.fault = "none"
        /\ DOMAIN histogram = DOMAIN last.pre
        /\ \A k \in DOMAIN last.pre :
              histogram[k] = (last.pre[k] * last.amt) \div Total(last.pre)
        /\ last.amt - len(last.pre) < Total(histogram)
        /\ Total(histogram) <= last.amt

\* A normalize whose truncation loses part of the target over several keys.
C7_Witness ==
    /\ last.op = "normalize"
    /\ len(last.pre) >= 2
    /\ Total(last.pre) > last.amt
    /\ Total(histogram) < last.amt
    /\ Total(histogram) > 0

\* C8 as stated: normalize on the empty histogram is a division-by-zero fault.
C8_NormalizeEmptyFaults ==
    (last.op = "normalize" /\ len(last.pre) = 0) => last.fault = "divide_by_zero"

\* C8 amended: normalize on the empty histogram divides nothing, returns
\* normally and leaves the histogram empty; the division by zero happens
\* exactly on a histogram that has entries and total zero, which it leaves
\* as it was.
C8_NormalizeFaultsOnZeroTotalEntries ==
    last.op = "normalize" =>
        /\ len(last.pre) = 0 => (last.fault = "none" /\ histogram = EmptyMap)
        /\ (last.fault = "divide_by_zero") <=>
              (len(last.pre) > 0 /\ Total(last.pre) = 0)
        /\ last.fault = "divide_by_zero" => histogram = last.pre

\* normalize called on the empty histogram with a positive target.
C8_Witness ==
    /\ last.op = "normalize"
    /\ len(last.pre) = 0
    /\ last.amt > 0

\* C9: pick_random_key faults on the empty histogram and on every histogram
\* with len() > 0 returns a present key without any fault.
C9_PickOnlyNeedsNonEmpty ==
    last.op = "pick_random_key" =>
        /\ len(last.pre) = 0 => last.fault # "none"
        /\ len(last.pre) > 0 => (last.fault = "none" /\ last.out \in DOMAIN last.pre)

\* C10 as stated: no reachable histogram holds an entry with counter zero, so
\* len() and all_labels() cover exactly the keys of nonzero count, and two
\* histograms that agree on every count are equal.
C10_ZeroNeverMaterialized ==
    /\ NoZeroEntry(histogram)
    /\ AllLabels(histogram, order) = {k \in Keys : Count(histogram, k) # 0}
    /\ len(histogram) = Cardinality({k \in Keys : Count(histogram, k) # 0})
    /\ (\A k \in Keys : Count(histogram, k) = Count(last.pre, k))
          => histogram = last.pre

\* C10 amended: bump, bump_by with a nonzero amount and += of a histogram
\* without zero entries keep a histogram without zero entries so; after them
\* len() and all_labels() cover exactly the keys of nonzero count, and the
\* histogram equals any other histogram without zero entries that agrees with
\* it on every count. (bump_by with amount zero, += of a zero entry and the
\* truncation of normalize do store entries with counter zero.)
C10_ZeroOnlyFromZeroAmounts ==
    (/\ NoZeroEntry(last.pre)
     /\ \/ last.op = "bump"
        \/ last.op = "bump_by" /\ last.amt # 0
        \/ last.op = "add_assign" /\ NoZeroEntry(last.rhs)) =>
        /\ NoZeroEntry(histogram)
        /\ AllLabels(histogram, order) = {k \in Keys : Count(histogram, k) # 0}
        /\ len(histogram) = Cardinality({k \in Keys : Count(histogram, k) # 0})
        /\ \A other \in {last.pre, last.rhs} :
              (\A k \in Keys : Count(histogram, k) = Count(other, k))
                  => histogram = other

\* A bump that inserts an absent key into a histogram without zero entries.
C10_Witness ==
    /\ last.op = "bump"
    /\ NoZeroEntry(last.pre)
    /\ len(last.pre) > 0
    /\ last.key \notin DOMAIN last.pre
    /\ histogram[last.key] = 1

====
